---- MODULE Spec2Model ----
(***************************************************************************)
(* A model of pydsfapi/connections.py: the client side of the Duet         *)
(* Software Framework JSON protocol over a UNIX stream socket.             *)
(*                                                                         *)
(* The byte stream is modelled byte by byte.  A byte is a record           *)
(* [c |-> character, m |-> n]: c is what the program sees, m is a ghost    *)
(* tag read by the properties only: n > 0 for the answer to the n-th frame  *)
(* the client wrote, 0 for the greeting, -n for the n-th text the server   *)
(* pushed unprompted.                                                      *)
(***************************************************************************)
EXTENDS Integers, Sequences, FiniteSets, TLC

VARIABLES
    socket,       \* BaseConnection.socket: 0 is None, n > 0 the n-th socket created
    id,           \* BaseConnection.id: "None" or the id byte of the greeting
    input,        \* BaseConnection.input: the read-ahead buffer
    nsock,        \* number of sockets created so far
    closeCalls,   \* closeCalls[n]: how often socket.close() was called on socket n
    wire,         \* bytes the server has written that the transport has not delivered
    rx,           \* bytes delivered to the client's socket and not yet read by recv
    peerClosed,   \* the server has closed its end of the current socket
    tx,           \* the frames the client has written with sendall, oldest first
    srvRead,      \* how many frames of tx the server has processed
    srv,          \* the server's end: "down", "accepted" (greeting due) or "up"
    srvPlan,      \* the texts the server pushes unprompted, in order
    srvPushed,    \* how many texts of srvPlan the server has written
    pc,           \* pc[t]: where thread t stands
    op,           \* op[t]: the public method thread t is executing
    cmd,          \* cmd[t]: the command passed to that method
    json_string,  \* json_string[t]: the local of receive_json
    data,         \* data[t]: the local of receive_json's inner loop
    part_len,     \* part_len[t]: len(part) of the last socket.recv of the call, -1 before it
    req,          \* req[t]: the position in tx of the request the call has sent, or 0
    outcome,      \* outcome[t]: how the last finished call of thread t ended
    ncalls,       \* how many calls the client has started
    handshaken,   \* the sockets on which a connect() has returned normally (history)
    nframes,      \* how many frames receive_json has taken off the stream (history)
    nreturned,    \* how many calls have returned a frame to their caller (history)
    scanned       \* what the caller's last get_json_object_end_index returned, 0 before it

vars == <<socket, id, input, nsock, closeCalls, wire, rx, peerClosed, tx,
          srvRead, srv, srvPlan, srvPushed, pc, op, cmd, json_string, data,
          part_len, req, outcome, ncalls, handshaken, nframes, nreturned, scanned>>

----------------------------------------------------------------------------
(* Bounds of the model *)

\* how many objects the server streams in the frame reader's specification
MaxObjs == 2
\* how many calls the client makes on the connection in one behaviour
MaxCalls == 3
\* how many sockets the client creates in one behaviour
MaxSockets == 2
\* how long the strings given to get_json_object_end_index are at most
MaxScanLen == 4

\* receive_json's BUFF_SIZE.  The program uses 4096; the model scales it to 4,
\* so that reads shorter than, equal to and longer than one buffer all occur.
BUFF_SIZE == 4

\* the size connect() passes to its one socket.recv for the greeting
GREETING_SIZE == 50

Threads == {"t1", "t2"}

----------------------------------------------------------------------------
(* Bytes and text *)

Min(a, b) == IF a < b THEN a ELSE b

\* the characters of a byte sequence
Chars(s) == [i \in DOMAIN s |-> s[i].c]

\* a text, written by the server as its m-th message
Tagged(text, m) == [i \in DOMAIN text |-> [c |-> text[i], m |-> m]]

\* a slice that loses its last character
TakeTrimmed(s, n) == SubSeq(s, 1, Min(n, Len(s)) - 1)

Take(s, n) == SubSeq(s, 1, Min(n, Len(s)))
Drop(s, n) == SubSeq(s, Min(n, Len(s)) + 1, Len(s))

\* bytes.decode("utf8"): "m1" is the lead byte and "m2" the continuation byte
\* of a two-byte character; any other byte is a character by itself.  A lead
\* byte without its continuation, or a continuation without its lead, is no
\* UTF-8 and decode raises UnicodeDecodeError.
RECURSIVE IsUtf8(_)
IsUtf8(s) ==
    IF s = <<>> THEN TRUE
    ELSE IF s[1].c = "m1" THEN Len(s) >= 2 /\ s[2].c = "m2" /\ IsUtf8(Drop(s, 2))
    ELSE IF s[1].c = "m2" THEN FALSE
    ELSE IsUtf8(Tail(s))

----------------------------------------------------------------------------
(* BaseConnection.get_json_object_end_index *)

\* The loop of get_json_object_end_index from position index (1-based) with
\* the brace count so far.  The result is Python's index + 1, or -1.
RECURSIVE ScanFrom(_, _, _)
ScanFrom(s, index, count) ==
    IF index > Len(s) THEN -1
    ELSE LET token == s[index].c
             c2 == IF token = "{" THEN count + 1
                   ELSE IF token = "}" THEN count - 1
                   ELSE count
         IN  IF c2 < 0 THEN -1
             ELSE IF c2 = 0 THEN index
             ELSE ScanFrom(s, index + 1, c2)

\* a scanner that skips a closing brace at the head of the string
get_json_object_end_index_resync(s) ==
    IF s # <<>> /\ s[1].c = "}" THEN ScanFrom(s, 2, 0) ELSE ScanFrom(s, 1, 0)

get_json_object_end_index(s) == ScanFrom(s, 1, 0)

\* the test receive_json applies to the end index, twice
FoundObject(end_index) == end_index > 1

----------------------------------------------------------------------------
(* JSON texts: the greeting, the response envelope, the pushed payloads *)

\* json.loads accepts a text as one JSON object: it opens with a brace, every
\* quote is closed, braces inside a string literal are string content, and the
\* brace that closes the first one is the last character.  inStr: inside a
\* string literal; depth: open braces outside string literals.
RECURSIVE JsonFrom(_, _, _, _)
JsonFrom(text, i, depth, inStr) ==
    IF i > Len(text) THEN FALSE
    ELSE LET ch == text[i]
         IN  IF inStr
             THEN JsonFrom(text, i + 1, depth, ch # "q")
             ELSE IF ch = "q" THEN depth > 0 /\ JsonFrom(text, i + 1, depth, TRUE)
             ELSE IF ch = "{" THEN JsonFrom(text, i + 1, depth + 1, FALSE)
             ELSE IF ch = "}"
                  THEN IF depth = 1 THEN i = Len(text)
                       ELSE depth > 1 /\ JsonFrom(text, i + 1, depth - 1, FALSE)
             ELSE IF ch \in {"m1", "m2"} THEN FALSE
             ELSE depth > 0 /\ JsonFrom(text, i + 1, depth, FALSE)

IsJsonObject(text) == JsonFrom(text, 1, 0, FALSE)

\* the server's greeting {version, id}
Versions == {"v_ok", "v_old"}
SessionIds == <<"id1", "id2", "id3", "id4">>
Greetings == [version : Versions, id : {SessionIds[n] : n \in DOMAIN SessionIds}]
EncodeGreeting(g) == <<"{", g.version, g.id, "}">>

\* ServerInitMessage.from_json(json.loads(...)) of the bytes of one recv
IsGreeting(bytes) == \E g \in Greetings : EncodeGreeting(g) = Chars(bytes)
ParseGreeting(bytes) == CHOOSE g \in Greetings : EncodeGreeting(g) = Chars(bytes)

\* ServerInitMessage.is_compatible
is_compatible(g) == g.version = "v_ok"

\* the response envelope {success, result, errorType, errorMessage}
ErrorTypes == {"TaskCanceledException", "ArgumentException"}
Texts == {<<"a">>, <<"}", "{", "}">>}
NoResponse == [success |-> FALSE, result |-> <<>>, error_type |-> "", error_message |-> <<>>]
Envelopes ==
    {[success |-> TRUE, result |-> x, error_type |-> "", error_message |-> <<>>] :
        x \in Texts}
    \cup {[success |-> FALSE, result |-> <<>>, error_type |-> e, error_message |-> x] :
        e \in ErrorTypes, x \in Texts}

\* the server's serialisation of an envelope: the success flag, the error type
\* ("c" for TaskCanceledException, "o" for any other), and the result or the
\* error message as a string literal between quotes
EncodeResponse(r) ==
    IF r.success
    THEN <<"{", "t", "q">> \o r.result \o <<"q", "}">>
    ELSE <<"{", "f", IF r.error_type = "TaskCanceledException" THEN "c" ELSE "o", "q">>
         \o r.error_message \o <<"q", "}">>

\* json.loads(json_string, object_hook=responses.decode_response)
IsResponse(bytes) == \E r \in Envelopes : EncodeResponse(r) = Chars(bytes)
DecodeResponse(bytes) == CHOOSE r \in Envelopes : EncodeResponse(r) = Chars(bytes)

\* JSON objects the server pushes: empty, with a member, nested, with a brace
\* inside a string literal, and with a two-byte character inside one
Objects ==
    { <<"{", "}">>,
      <<"{", "a", "}">>,
      <<"{", "{", "}", "}">>,
      <<"{", "q", "}", "q", "}">>,
      <<"{", "q", "}", "{", "}", "q", "}">>,
      <<"{", "q", "m1", "m2", "q", "}">> }

\* cls.from_json(json.loads(json_string)) of BaseConnection.receive succeeds
IsJsonPayload(bytes) == IsJsonObject(Chars(bytes))

----------------------------------------------------------------------------
(* How a call ends *)

NoOutcome ==
    [op |-> "", kind |-> "none", exc |-> "", command |-> "", error_type |-> "",
     error_message |-> <<>>, response |-> NoResponse, text |-> <<>>, req |-> 0]

\* the call returns: response is the decoded envelope it returns (if any), text
\* the frame receive_json gave it (if any), r the request it had sent
Return(o, response, text, r) ==
    [NoOutcome EXCEPT !.op = o, !.kind = "return", !.response = response,
                      !.text = text, !.req = r]

\* the call raises exc; text is the frame receive_json gave it (if any)
Raise(o, exc, text, r) ==
    [NoOutcome EXCEPT !.op = o, !.kind = "raise", !.exc = exc, !.text = text, !.req = r]

\* the call is over: the connection's buffer and the frames written are as given
Complete(t, res, inputNow, txNow) ==
    /\ pc' = [pc EXCEPT ![t] = "idle"]
    /\ outcome' = [outcome EXCEPT ![t] = res]
    /\ json_string' = [json_string EXCEPT ![t] = <<>>]
    /\ data' = [data EXCEPT ![t] = <<>>]
    /\ input' = inputNow
    /\ tx' = txNow
    /\ nreturned' = IF res.kind = "return" /\ res.text # <<>>
                    THEN nreturned + 1
                    ELSE nreturned

----------------------------------------------------------------------------
(* BaseConnection.send *)

\* the exception of self.socket.sendall, "" when it succeeds: None has no
\* sendall, and a stream socket whose peer has closed gives EPIPE
SendError == IF socket = 0 THEN "AttributeError"
             ELSE IF peerClosed THEN "BrokenPipeError"
             ELSE ""

\* the frames written once msg is sent
Sent(txNow, msg, arg) == Append(txNow, [sock |-> socket, msg |-> msg, arg |-> arg])

----------------------------------------------------------------------------
(* BaseConnection.perform_command, from the decoded response on *)

\* a perform_command that does not tell a cancelled task from a server fault
CommandOutcomeNoCancel(command, response, text, r) ==
    IF response.success
    THEN Return("perform_command", response, text, r)
    ELSE [Raise("perform_command", "InternalServerException", text, r)
            EXCEPT !.command = command,
                   !.error_type = response.error_type,
                   !.error_message = response.error_message]

CommandOutcome(command, response, text, r) ==
    IF response.success
    THEN Return("perform_command", response, text, r)
    ELSE IF response.error_type = "TaskCanceledException"
    THEN [Raise("perform_command", "TaskCanceledException", text, r)
            EXCEPT !.error_message = response.error_message]
    ELSE [Raise("perform_command", "InternalServerException", text, r)
            EXCEPT !.command = command,
                   !.error_type = response.error_type,
                   !.error_message = response.error_message]

----------------------------------------------------------------------------
(* What each caller of receive_json does with the frame it returns *)

\* the tail of connect(): receive_response and the success test
ConnectTail(t, r, frame, inputNow, txNow) ==
    IF ~IsResponse(frame)
    THEN Complete(t, Raise("connect", "JSONDecodeError", frame, r), inputNow, txNow)
    ELSE LET response == DecodeResponse(frame)
         IN  IF ~response.success
             THEN Complete(t, [Raise("connect", "Exception", frame, r)
                                 EXCEPT !.error_type = response.error_type,
                                        !.error_message = response.error_message],
                           inputNow, txNow)
             ELSE Complete(t, Return("connect", response, frame, r), inputNow, txNow)

\* a perform_command that writes its request again when the response reports
\* a failure
CommandTailResend(t, c, r, frame, inputNow, txNow) ==
    IF ~IsResponse(frame)
    THEN Complete(t, Raise("perform_command", "JSONDecodeError", frame, r),
                  inputNow, txNow)
    ELSE Complete(t, CommandOutcome(c, DecodeResponse(frame), frame, r), inputNow,
                  IF DecodeResponse(frame).success THEN txNow ELSE Sent(txNow, c, ""))

\* the tail of perform_command(): receive_response and the outcome
CommandTail(t, c, r, frame, inputNow, txNow) ==
    IF ~IsResponse(frame)
    THEN Complete(t, Raise("perform_command", "JSONDecodeError", frame, r),
                  inputNow, txNow)
    ELSE Complete(t, CommandOutcome(c, DecodeResponse(frame), frame, r),
                  inputNow, txNow)

\* a getter that returns its payload without acknowledging it
AcknowledgeForgotten(t, o, frame, inputNow, txNow) ==
    Complete(t, Return(o, NoResponse, frame, 0), inputNow, txNow)

\* send(basecommands.acknowledge()) and the return of the three subscribe getters
Acknowledge(t, o, frame, inputNow, txNow) ==
    IF SendError # ""
    THEN Complete(t, Raise(o, SendError, frame, 0), inputNow, txNow)
    ELSE Complete(t, Return(o, NoResponse, frame, Len(txNow) + 1), inputNow,
                  Sent(txNow, "acknowledge", ""))

\* the tail of get_machine_model(): receive(MachineModel) decodes the frame first
ModelTail(t, o, frame, inputNow, txNow) ==
    IF ~IsJsonPayload(frame)
    THEN Complete(t, Raise(o, "JSONDecodeError", frame, 0), inputNow, txNow)
    ELSE Acknowledge(t, o, frame, inputNow, txNow)

\* the tail of receive_code(): receive(code.Code) decodes the frame and returns
CodeTail(t, o, frame, inputNow, txNow) ==
    IF ~IsJsonPayload(frame)
    THEN Complete(t, Raise(o, "JSONDecodeError", frame, 0), inputNow, txNow)
    ELSE Complete(t, Return(o, NoResponse, frame, 0), inputNow, txNow)

\* receive_json returns frame to the method o that called it
AfterReceive(t, o, c, r, frame, inputNow, txNow) ==
    /\ nframes' = nframes + 1
    /\ CASE o = "connect" -> ConnectTail(t, r, frame, inputNow, txNow)
         [] o = "perform_command" -> CommandTail(t, c, r, frame, inputNow, txNow)
         [] o = "get_machine_model" -> ModelTail(t, o, frame, inputNow, txNow)
         [] o = "receive_code" -> CodeTail(t, o, frame, inputNow, txNow)
         [] o \in {"get_serialized_machine_model", "get_machine_model_patch"} ->
               Acknowledge(t, o, frame, inputNow, txNow)
         [] OTHER -> Complete(t, Return(o, NoResponse, frame, 0), inputNow, txNow)

----------------------------------------------------------------------------
(* BaseConnection.receive_json *)

\* receive_json up to its first socket.recv: the socket test and the look at
\* the buffer.  o is the calling method, c its command, r the position of the
\* request it has sent, txNow the frames written so far.
ReceiveJsonEnter(t, o, c, r, txNow) ==
    /\ part_len' = [part_len EXCEPT ![t] = -1]
    /\ IF socket = 0
       THEN /\ Complete(t, Raise(o, "RuntimeError", <<>>, r), input, txNow)
            /\ UNCHANGED nframes
       ELSE LET end_index == get_json_object_end_index(input)
            IN  IF FoundObject(end_index)
                THEN AfterReceive(t, o, c, r, Take(input, end_index),
                                  Drop(input, end_index), txNow)
                ELSE /\ pc' = [pc EXCEPT ![t] = "recv"]
                     /\ json_string' = [json_string EXCEPT ![t] = input]
                     /\ data' = [data EXCEPT ![t] = <<>>]
                     /\ outcome' = [outcome EXCEPT ![t] = NoOutcome]
                     /\ tx' = txNow
                     /\ UNCHANGED <<input, nframes, nreturned>>

\* the handshake on the socket is complete once connect() returns normally
Handshake(t) ==
    handshaken' = IF pc'[t] = "idle" /\ outcome'[t].op = "connect"
                     /\ outcome'[t].kind = "return"
                  THEN handshaken \cup {socket}
                  ELSE handshaken

\* socket.recv can return: bytes are there, or the peer has closed and
\* nothing is on its way
Readable == rx # <<>> \/ (peerClosed /\ wire = <<>>)

\* one socket.recv(BUFF_SIZE) of the inner loop and what follows it up to the
\* next socket.recv or the end of the call
ReceiveJsonRecv(t) ==
    /\ pc[t] = "recv"
    /\ Readable
    /\ LET part == Take(rx, BUFF_SIZE)
           data2 == data[t] \o part
       IN  /\ rx' = Drop(rx, BUFF_SIZE)
           /\ part_len' = [part_len EXCEPT ![t] = Len(part)]
           /\ IF ~(Len(part) < BUFF_SIZE)
              THEN /\ data' = [data EXCEPT ![t] = data2]
                   /\ UNCHANGED <<pc, json_string, input, tx, outcome, nframes,
                                  nreturned>>
              ELSE IF ~IsUtf8(data2)
              THEN /\ Complete(t, Raise(op[t], "UnicodeDecodeError", <<>>, req[t]),
                               input, tx)
                   /\ UNCHANGED nframes
              ELSE LET js == json_string[t] \o data2
                       end_index == get_json_object_end_index(js)
                   IN  IF FoundObject(end_index)
                       THEN AfterReceive(t, op[t], cmd[t], req[t], Take(js, end_index),
                                         Drop(js, end_index), tx)
                       ELSE /\ json_string' = [json_string EXCEPT ![t] = js]
                            /\ data' = [data EXCEPT ![t] = <<>>]
                            /\ UNCHANGED <<pc, input, tx, outcome, nframes, nreturned>>
    /\ Handshake(t)
    /\ UNCHANGED <<socket, id, nsock, closeCalls, wire, peerClosed, srvRead, srv,
                   srvPlan, srvPushed, op, cmd, req, ncalls, scanned>>

----------------------------------------------------------------------------
(* The control server and the transport *)

\* the transport delivers the next k bytes the server wrote: any chunking
Deliver(k) ==
    /\ k \in 1..Len(wire)
    /\ rx' = rx \o Take(wire, k)
    /\ wire' = Drop(wire, k)
    /\ UNCHANGED <<socket, id, input, nsock, closeCalls, peerClosed, tx, srvRead, srv,
                   srvPlan, srvPushed, pc, op, cmd, json_string, data, part_len, req,
                   outcome, ncalls, handshaken, nframes, nreturned,
                   scanned>>

\* the server writes the next text of its plan, unprompted
ServerPush ==
    /\ srv = "up"
    /\ ~peerClosed
    /\ srvPushed < Len(srvPlan)
    /\ wire' = wire \o Tagged(srvPlan[srvPushed + 1], -(srvPushed + 1))
    /\ srvPushed' = srvPushed + 1
    /\ UNCHANGED <<socket, id, input, nsock, closeCalls, rx, peerClosed, tx, srvRead,
                   srv, srvPlan, pc, op, cmd, json_string, data, part_len, req,
                   outcome, ncalls, handshaken, nframes, nreturned,
                   scanned>>

\* the server closes its end of the connection
ServerClose ==
    /\ srv # "down"
    /\ ~peerClosed
    /\ peerClosed' = TRUE
    /\ UNCHANGED <<socket, id, input, nsock, closeCalls, wire, rx, tx, srvRead, srv,
                   srvPlan, srvPushed, pc, op, cmd, json_string, data, part_len, req,
                   outcome, ncalls, handshaken, nframes, nreturned,
                   scanned>>

\* the server greets the connection it has accepted with its protocol
\* version v and the id of the session
ServerGreet(v) ==
    /\ srv = "accepted"
    /\ ~peerClosed
    /\ wire' = wire \o Tagged(EncodeGreeting([version |-> v, id |-> SessionIds[socket]]), 0)
    /\ srv' = "up"
    /\ UNCHANGED <<socket, id, input, nsock, closeCalls, rx, peerClosed, tx, srvRead,
                   srvPlan, srvPushed, pc, op, cmd, json_string, data, part_len, req,
                   outcome, ncalls, handshaken, nframes, nreturned,
                   scanned>>

\* the server reads the next frame the client wrote, an init message or a
\* command, and answers it with the envelope r
ServerAnswer(r) ==
    /\ srv = "up"
    /\ ~peerClosed
    /\ srvRead < Len(tx)
    /\ tx[srvRead + 1].msg # "acknowledge"
    /\ wire' = wire \o Tagged(EncodeResponse(r), srvRead + 1)
    /\ srvRead' = srvRead + 1
    /\ UNCHANGED <<socket, id, input, nsock, closeCalls, rx, peerClosed, tx, srv,
                   srvPlan, srvPushed, pc, op, cmd, json_string, data, part_len, req,
                   outcome, ncalls, handshaken, nframes, nreturned,
                   scanned>>

\* the acknowledgments the server has read
AcksRead == Cardinality({i \in 1..srvRead : tx[i].msg = "acknowledge"})

\* a subscription server reads the acknowledgment the client wrote
ServerReadAck ==
    /\ srv = "up"
    /\ ~peerClosed
    /\ srvRead < Len(tx)
    /\ tx[srvRead + 1].msg = "acknowledge"
    /\ srvRead' = srvRead + 1
    /\ UNCHANGED <<socket, id, input, nsock, closeCalls, wire, rx, peerClosed, tx, srv,
                   srvPlan, srvPushed, pc, op, cmd, json_string, data, part_len, req,
                   outcome, ncalls, handshaken, nframes, nreturned,
                   scanned>>

\* a subscription server writes its next payload: the first one unprompted,
\* each later one once the payload before it has been acknowledged
ServerPushAcked ==
    /\ AcksRead >= srvPushed
    /\ ServerPush

\* a server that streams its texts once it has answered the init message of
\* the connection it serves
ServerStream ==
    /\ tx # <<>>
    /\ tx[Len(tx)].sock = socket
    /\ srvRead = Len(tx)
    /\ ServerPush

\* the frames with which the client resolves an intercepted code
Resolutions == {"cancel", "ignore", "resolve"}

\* the resolutions the server has read
ResolutionsRead == Cardinality({i \in 1..srvRead : tx[i].msg \in Resolutions})

\* an interception server reads the resolution the client wrote
ServerReadResolution ==
    /\ srv = "up"
    /\ ~peerClosed
    /\ srvRead < Len(tx)
    /\ tx[srvRead + 1].msg \in Resolutions
    /\ srvRead' = srvRead + 1
    /\ UNCHANGED <<socket, id, input, nsock, closeCalls, wire, rx, peerClosed, tx, srv,
                   srvPlan, srvPushed, pc, op, cmd, json_string, data, part_len, req,
                   outcome, ncalls, handshaken, nframes, nreturned,
                   scanned>>

\* an interception server writes its next code: the first one unprompted,
\* each later one once it has read a resolution of the code before it
ServerPushResolved ==
    /\ ResolutionsRead >= srvPushed
    /\ ServerPush

----------------------------------------------------------------------------
(* The client's calls *)

\* a call of method o by thread t begins
Begin(t, o, c, r) ==
    /\ pc[t] = "idle"
    /\ ncalls < MaxCalls
    /\ ncalls' = ncalls + 1
    /\ op' = [op EXCEPT ![t] = o]
    /\ cmd' = [cmd EXCEPT ![t] = c]
    /\ req' = [req EXCEPT ![t] = r]

\* BaseConnection.receive_json, called by the user
ReceiveJson(t) ==
    /\ Begin(t, "receive_json", "", 0)
    /\ ReceiveJsonEnter(t, "receive_json", "", 0, tx)
    /\ UNCHANGED <<socket, id, nsock, closeCalls, wire, rx, peerClosed, srvRead, srv,
                   srvPlan, srvPushed, handshaken, scanned>>

Commands == {"flush", "sync_object_model"}

\* a connect() that does not check the version of the greeting
GreetingErrorUnchecked(bytes) ==
    IF ~IsGreeting(bytes) THEN "JSONDecodeError" ELSE ""

\* the exception connect() raises on the bytes of its socket.recv(50), "" when
\* they are a greeting of a compatible version
GreetingError(bytes) ==
    IF ~IsGreeting(bytes) THEN "JSONDecodeError"
    ELSE IF ~is_compatible(ParseGreeting(bytes)) THEN "IncompatibleVersionException"
    ELSE ""

\* BaseConnection.connect up to its socket.recv(50): a new socket is created
\* and connected; the socket the connection held before, if any, is dropped
\* without a close
Connect(t) ==
    /\ Begin(t, "connect", "", 0)
    /\ nsock < MaxSockets
    /\ nsock' = nsock + 1
    /\ socket' = nsock + 1
    /\ wire' = <<>>
    /\ rx' = <<>>
    /\ peerClosed' = FALSE
    /\ srv' = "accepted"
    /\ srvRead' = Len(tx)
    /\ pc' = [pc EXCEPT ![t] = "greeting"]
    /\ outcome' = [outcome EXCEPT ![t] = NoOutcome]
    /\ UNCHANGED <<id, input, closeCalls, tx, srvPlan, srvPushed, json_string, data,
                   part_len, handshaken, nframes, nreturned,
                   scanned>>

\* connect() from the return of socket.recv(50) on: the greeting is parsed and
\* checked, the id recorded, the init message sent, and receive_response begun
ConnectGreeting(t, mode) ==
    /\ pc[t] = "greeting"
    /\ Readable
    /\ rx' = Drop(rx, GREETING_SIZE)
    /\ LET bytes == Take(rx, GREETING_SIZE)
       IN  IF GreetingError(bytes) # ""
           THEN /\ Complete(t, Raise("connect", GreetingError(bytes), <<>>, 0), input, tx)
                /\ UNCHANGED <<id, req, part_len, nframes>>
           ELSE /\ id' = ParseGreeting(bytes).id
                /\ IF SendError # ""
                   THEN /\ Complete(t, Raise("connect", SendError, <<>>, 0), input, tx)
                        /\ UNCHANGED <<req, part_len, nframes>>
                   ELSE /\ req' = [req EXCEPT ![t] = Len(tx) + 1]
                        /\ ReceiveJsonEnter(t, "connect", "", Len(tx) + 1,
                                            Sent(tx, "init", mode))
    /\ Handshake(t)
    /\ UNCHANGED <<socket, nsock, closeCalls, wire, peerClosed, srvRead, srv, srvPlan,
                   srvPushed, op, cmd, ncalls, scanned>>

\* a close() that closes the socket and keeps the reference to it
CloseKeepsSocket(t) ==
    /\ Begin(t, "close", "", 0)
    /\ IF socket # 0
       THEN /\ closeCalls' = [closeCalls EXCEPT ![socket] = @ + 1]
            /\ wire' = <<>>
            /\ rx' = <<>>
            /\ srv' = "down"
       ELSE UNCHANGED <<closeCalls, wire, rx, srv>>
    /\ Complete(t, Return("close", NoResponse, <<>>, 0), input, tx)
    /\ UNCHANGED <<socket, id, nsock, peerClosed, srvRead, srvPlan, srvPushed, part_len,
                   handshaken, nframes, scanned>>

\* BaseConnection.close
Close(t) ==
    /\ Begin(t, "close", "", 0)
    /\ IF socket # 0
       THEN /\ closeCalls' = [closeCalls EXCEPT ![socket] = @ + 1]
            /\ socket' = 0
            /\ wire' = <<>>
            /\ rx' = <<>>
            /\ srv' = "down"
       ELSE UNCHANGED <<closeCalls, socket, wire, rx, srv>>
    /\ Complete(t, Return("close", NoResponse, <<>>, 0), input, tx)
    /\ UNCHANGED <<id, nsock, peerClosed, srvRead, srvPlan, srvPushed, part_len,
                   handshaken, nframes, scanned>>

\* BaseConnection.perform_command up to the first socket.recv of receive_json
PerformCommand(t, c) ==
    /\ IF SendError # ""
       THEN /\ Begin(t, "perform_command", c, 0)
            /\ Complete(t, Raise("perform_command", SendError, <<>>, 0), input, tx)
            /\ UNCHANGED <<part_len, nframes>>
       ELSE /\ Begin(t, "perform_command", c, Len(tx) + 1)
            /\ ReceiveJsonEnter(t, "perform_command", c, Len(tx) + 1, Sent(tx, c, ""))
    /\ UNCHANGED <<socket, id, nsock, closeCalls, wire, rx, peerClosed, srvRead, srv,
                   srvPlan, srvPushed, handshaken, scanned>>

\* the three getters of SubscribeConnection up to the first socket.recv of
\* receive_json
SubscribeGet(t, o) ==
    /\ Begin(t, o, "", 0)
    /\ ReceiveJsonEnter(t, o, "", 0, tx)
    /\ UNCHANGED <<socket, id, nsock, closeCalls, wire, rx, peerClosed, srvRead, srv,
                   srvPlan, srvPushed, handshaken, scanned>>

\* SubscribeConnection.get_machine_model
GetMachineModel(t) == SubscribeGet(t, "get_machine_model")

\* SubscribeConnection.get_serialized_machine_model
GetSerializedMachineModel(t) == SubscribeGet(t, "get_serialized_machine_model")

\* SubscribeConnection.get_machine_model_patch
GetMachineModelPatch(t) == SubscribeGet(t, "get_machine_model_patch")

\* InterceptConnection.receive_code up to the first socket.recv of receive_json
ReceiveCode(t) == SubscribeGet(t, "receive_code")

\* a method of InterceptConnection that is one self.send(...) and nothing else
SendOnly(t, o, msg, arg) ==
    /\ IF SendError # ""
       THEN /\ Begin(t, o, "", 0)
            /\ Complete(t, Raise(o, SendError, <<>>, 0), input, tx)
       ELSE /\ Begin(t, o, "", Len(tx) + 1)
            /\ Complete(t, Return(o, NoResponse, <<>>, Len(tx) + 1), input,
                        Sent(tx, msg, arg))
    /\ UNCHANGED <<socket, id, nsock, closeCalls, wire, rx, peerClosed, srvRead, srv,
                   srvPlan, srvPushed, part_len, handshaken, nframes, scanned>>

\* InterceptConnection.cancel_code
CancelCode(t) == SendOnly(t, "cancel_code", "cancel", "")

\* InterceptConnection.ignore_code
IgnoreCode(t) == SendOnly(t, "ignore_code", "ignore", "")

MessageTypes == {"Success"}

\* a resolve_code that returns without having written its message
ResolveCodeForgotten(t, rtype) ==
    /\ Begin(t, "resolve_code", "", 0)
    /\ Complete(t, Return("resolve_code", NoResponse, <<>>, 0), input, tx)
    /\ UNCHANGED <<socket, id, nsock, closeCalls, wire, rx, peerClosed, srvRead, srv,
                   srvPlan, srvPushed, part_len, handshaken, nframes, scanned>>

\* InterceptConnection.resolve_code
ResolveCode(t, rtype) == SendOnly(t, "resolve_code", "resolve", rtype)

\* BaseConnection.get_json_object_end_index, called by the user on the
\* string json_string
GetJsonObjectEndIndex(t) ==
    /\ scanned = 0
    /\ scanned' = get_json_object_end_index(json_string[t])
    /\ UNCHANGED <<socket, id, input, nsock, closeCalls, wire, rx, peerClosed, tx,
                   srvRead, srv, srvPlan, srvPushed, pc, op, cmd, json_string, data,
                   part_len, req, outcome, ncalls, handshaken, nframes, nreturned>>

----------------------------------------------------------------------------
(* The states specifications start in *)

\* the threads are in no call
ThreadsIdle ==
    /\ pc = [t \in Threads |-> "idle"]
    /\ op = [t \in Threads |-> ""]
    /\ cmd = [t \in Threads |-> ""]
    /\ json_string = [t \in Threads |-> <<>>]
    /\ data = [t \in Threads |-> <<>>]
    /\ part_len = [t \in Threads |-> -1]
    /\ req = [t \in Threads |-> 0]
    /\ outcome = [t \in Threads |-> NoOutcome]
    /\ ncalls = 0
    /\ nframes = 0
    /\ nreturned = 0
    /\ scanned = 0

\* the connection after a connect() that succeeded in the given mode: the
\* greeting is read, the init message written and its response consumed
Connected(mode) ==
    /\ socket = 1
    /\ id = "id1"
    /\ input = <<>>
    /\ nsock = 1
    /\ closeCalls = [n \in 1..MaxSockets |-> 0]
    /\ wire = <<>>
    /\ rx = <<>>
    /\ peerClosed = FALSE
    /\ tx = <<[sock |-> 1, msg |-> "init", arg |-> mode]>>
    /\ srvRead = 1
    /\ srv = "up"
    /\ srvPushed = 0
    /\ handshaken = {1}
    /\ ThreadsIdle

\* the streams of at most n objects
Plans(n) == UNION {[1..k -> {o \in Objects : IsJsonObject(o)}] : k \in 1..n}

----------------------------------------------------------------------------
(* The frame reader: one thread calls receive_json on a connected connection *)
(* while the server streams JSON objects back to back.                       *)

InitFrame ==
    /\ Connected("subscribe")
    /\ srvPlan \in Plans(MaxObjs)

NextFrame ==
    \/ ServerPush
    \/ \E k \in 1..Len(wire) : Deliver(k)
    \/ ServerClose
    \/ ReceiveJson("t1")
    \/ ReceiveJsonRecv("t1")

SpecFrame == InitFrame /\ [][NextFrame]_vars

----------------------------------------------------------------------------
(* The life of one command connection used by one thread: it is constructed, *)
(* connected, used for commands and closed, in any order the API allows.     *)

\* the state after BaseConnection.__init__
Init ==
    /\ socket = 0
    /\ id = "None"
    /\ input = <<>>
    /\ nsock = 0
    /\ closeCalls = [n \in 1..MaxSockets |-> 0]
    /\ wire = <<>>
    /\ rx = <<>>
    /\ peerClosed = FALSE
    /\ tx = <<>>
    /\ srvRead = 0
    /\ srv = "down"
    /\ srvPlan = <<>>
    /\ srvPushed = 0
    /\ handshaken = {}
    /\ ThreadsIdle

Next ==
    \/ Connect("t1")
    \/ ConnectGreeting("t1", "command")
    \/ ReceiveJsonRecv("t1")
    \/ \E c \in Commands : PerformCommand("t1", c)
    \/ Close("t1")
    \/ \E v \in Versions : ServerGreet(v)
    \/ \E r \in Envelopes : ServerAnswer(r)
    \/ Deliver(Len(wire))   \* a short write reaches a UNIX stream socket whole
    \/ ServerClose

Spec == Init /\ [][Next]_vars

----------------------------------------------------------------------------
(* The command channel of a connected connection, used by one thread: the    *)
(* calls are issued one at a time and the server answers each request.       *)

InitCmd ==
    /\ Connected("command")
    /\ srvPlan = <<>>

NextCmd ==
    \/ \E c \in Commands : PerformCommand("t1", c)
    \/ ReceiveJsonRecv("t1")
    \/ \E r \in Envelopes : ServerAnswer(r)
    \/ Deliver(Len(wire))

SpecCmd == InitCmd /\ [][NextCmd]_vars

----------------------------------------------------------------------------
(* The same connection shared by two threads without a lock of their own.    *)

NextConc ==
    \/ \E t \in Threads, c \in Commands : PerformCommand(t, c)
    \/ \E t \in Threads : ReceiveJsonRecv(t)
    \/ \E r \in Envelopes : ServerAnswer(r)
    \/ Deliver(Len(wire))

SpecConc == InitCmd /\ [][NextConc]_vars

----------------------------------------------------------------------------
(* A subscribe connection used by one thread; the server sends a payload     *)
(* only once the payload before it has been acknowledged.                    *)

InitSub ==
    /\ Connected("subscribe")
    /\ srvPlan \in Plans(MaxObjs)

NextSub ==
    \/ GetMachineModel("t1")
    \/ GetSerializedMachineModel("t1")
    \/ GetMachineModelPatch("t1")
    \/ ReceiveJsonRecv("t1")
    \/ ServerPushAcked
    \/ ServerReadAck
    \/ \E k \in 1..Len(wire) : Deliver(k)

SpecSub == InitSub /\ [][NextSub]_vars

----------------------------------------------------------------------------
(* An intercept connection used by one thread; the server sends a code only  *)
(* once it has read a resolution of the code before it.                      *)

InitInt ==
    /\ Connected("intercept")
    /\ srvPlan \in Plans(MaxObjs)

NextInt ==
    \/ ReceiveCode("t1")
    \/ CancelCode("t1")
    \/ IgnoreCode("t1")
    \/ \E rtype \in MessageTypes : ResolveCode("t1", rtype)
    \/ ReceiveJsonRecv("t1")
    \/ ServerPushResolved
    \/ ServerReadResolution
    \/ Deliver(Len(wire))

SpecInt == InitInt /\ [][NextInt]_vars

----------------------------------------------------------------------------
(* The frame reader with its scheduling: the transport delivers what the     *)
(* server wrote, and a socket.recv that can return does return.  The server  *)
(* is under no obligation to write or to close.                              *)

SpecFrameFair ==
    /\ InitFrame
    /\ [][NextFrame]_vars
    /\ WF_vars(\E k \in 1..Len(wire) : Deliver(k))
    /\ WF_vars(ReceiveJsonRecv("t1"))

----------------------------------------------------------------------------
(* The frame reader on a stream that is not well formed: among the objects   *)
(* the server writes texts that begin with a closing brace.                  *)

\* texts whose braces are unbalanced from the first character on
Unbalanced == { <<"}">>, <<"}", "{", "}">> }

InitMalformed ==
    /\ Connected("subscribe")
    /\ srvPlan \in UNION {[1..k -> Objects \cup Unbalanced] : k \in 1..MaxObjs}

SpecMalformed == InitMalformed /\ [][NextFrame]_vars

----------------------------------------------------------------------------
(* One connection object used again: while the server streams objects the    *)
(* thread reads frames, closes the connection and connects it anew.          *)

NextReuse ==
    \/ ReceiveJson("t1")
    \/ ReceiveJsonRecv("t1")
    \/ Close("t1")
    \/ Connect("t1")
    \/ ConnectGreeting("t1", "subscribe")
    \/ ServerStream
    \/ \E v \in Versions : ServerGreet(v)
    \/ \E r \in Envelopes : ServerAnswer(r)
    \/ Deliver(Len(wire))

SpecReuse == InitFrame /\ [][NextReuse]_vars

----------------------------------------------------------------------------
(* The brace scanner alone: the static method is applied to a string.        *)

\* the characters of the strings scanned: the two braces, a quote, a letter
ScanAlphabet == {"{", "}", "q", "a"}

\* the strings of at most n characters
Buffers(n) == UNION {[1..k -> ScanAlphabet] : k \in 0..n}

InitScan ==
    /\ socket = 0
    /\ id = "None"
    /\ input = <<>>
    /\ nsock = 0
    /\ closeCalls = [n \in 1..MaxSockets |-> 0]
    /\ wire = <<>>
    /\ rx = <<>>
    /\ peerClosed = FALSE
    /\ tx = <<>>
    /\ srvRead = 0
    /\ srv = "down"
    /\ srvPlan = <<>>
    /\ srvPushed = 0
    /\ handshaken = {}
    /\ pc = [t \in Threads |-> "idle"]
    /\ op = [t \in Threads |-> ""]
    /\ cmd = [t \in Threads |-> ""]
    /\ \E b \in Buffers(MaxScanLen) :
          json_string = [t \in Threads |-> IF t = "t1" THEN Tagged(b, 0) ELSE <<>>]
    /\ data = [t \in Threads |-> <<>>]
    /\ part_len = [t \in Threads |-> -1]
    /\ req = [t \in Threads |-> 0]
    /\ outcome = [t \in Threads |-> NoOutcome]
    /\ ncalls = 0
    /\ nframes = 0
    /\ nreturned = 0
    /\ scanned = 0

NextScan == GetJsonObjectEndIndex("t1")

SpecScan == InitScan /\ [][NextScan]_vars

----------------------------------------------------------------------------
(* Properties of the frame reader *)

\* C1: for N valid JSON objects written back to back and delivered under any
\* chunking, the k-th receive_json call returns the k-th object, byte for byte
\* (k = 1..N).
C1_ObjectsReturnedInOrder ==
    (pc["t1"] = "idle" /\ ncalls \in 1..Len(srvPlan))
        => /\ outcome["t1"].kind = "return"
           /\ Chars(outcome["t1"].text) = srvPlan[ncalls]

\* C6: once a socket.recv of receive_json has returned zero bytes (the peer
\* has closed and nothing is left to read), the call is over: it has returned
\* an object completed by the bytes read before, or it has raised.
C6_ClosedTransportEndsCall ==
    \A t \in Threads : part_len[t] = 0 => pc[t] = "idle"

\* the texts of the server's plan from the k-th on, back to back
RECURSIVE StreamFrom(_)
StreamFrom(k) ==
    IF k > Len(srvPlan) THEN <<>> ELSE srvPlan[k] \o StreamFrom(k + 1)

IsPrefix(p, s) == Len(p) <= Len(s) /\ SubSeq(s, 1, Len(p)) = p

\* a receive_json call of thread t has returned a frame
Extracted(t) ==
    /\ pc[t] = "idle"
    /\ outcome[t].op = "receive_json"
    /\ outcome[t].kind = "return"

\* C14: after a receive_json that returned, the read-ahead buffer is zero or
\* more complete messages of the stream followed by at most one proper prefix
\* of the next: it is a prefix of the stream from some message boundary on.
C14_BufferWholeMessagesThenPrefix ==
    \A t \in Threads :
        Extracted(t) =>
            \E k \in 1..(Len(srvPlan) + 1) : IsPrefix(Chars(input), StreamFrom(k))

\* the index the description gives from position i with depth open braces:
\* the position of the closing brace that returns the depth to 0, braces
\* counted and every other character ignored; -1 when the string ends first
\* or the depth goes negative
RECURSIVE DepthZeroFrom(_, _, _)
DepthZeroFrom(s, i, depth) ==
    IF i > Len(s) THEN -1
    ELSE IF s[i].c = "{" THEN DepthZeroFrom(s, i + 1, depth + 1)
    ELSE IF s[i].c = "}"
         THEN IF depth - 1 < 0 THEN -1
              ELSE IF depth - 1 = 0 THEN i
              ELSE DepthZeroFrom(s, i + 1, depth - 1)
    ELSE DepthZeroFrom(s, i + 1, depth)

\* C15: get_json_object_end_index returns the position immediately after the
\* closing brace that returns the brace depth to 0, every character other
\* than a brace ignored, and -1 when the string is exhausted first or the
\* depth goes negative.
C15_EndIndexAfterClosingBrace ==
    scanned # 0 => scanned = DepthZeroFrom(json_string["t1"], 1, 0)

\* what the receive_json call of thread t holds unconsumed: the text it
\* scans and the bytes of the refill in progress
Pending(t) == json_string[t] \o data[t]

\* the string begins with a closing brace
HeadIsCloser(s) == s # <<>> /\ s[1].c = "}"

\* C19: while the unconsumed input of a receive_json call begins with a
\* closing brace, a socket.recv of the call never ends it with a value or
\* with a framing error: a call that finds such a buffer goes on to read,
\* and while it reads it keeps everything it holds, adds what it read and
\* waits for more.  (The one way out the code has is the decode
\* error of a refill that is no UTF-8.)
C19_UnbalancedWaitsForever ==
    [][/\ (ncalls' # ncalls /\ socket # 0 /\ HeadIsCloser(input))
            => /\ nframes' = nframes
               /\ \E t \in Threads :
                    pc[t] = "idle" /\ pc'[t] = "recv" /\ json_string'[t] = input
       /\ \A t \in Threads :
            (pc[t] = "recv" /\ HeadIsCloser(Pending(t)))
                => \/ /\ pc'[t] = "recv"
                      /\ IsPrefix(Pending(t), Pending(t)')
                      /\ outcome'[t] = outcome[t]
                   \/ /\ pc'[t] = "idle"
                      /\ outcome'[t].exc = "UnicodeDecodeError"]_vars

\* C19 witness: the call has read a closing brace followed by a complete
\* object, nothing more is on its way, and the call is still waiting
C19_Witness ==
    /\ pc["t1"] = "recv"
    /\ Chars(json_string["t1"]) = <<"}", "{", "}">>
    /\ data["t1"] = <<>>
    /\ rx = <<>>
    /\ wire = <<>>
    /\ srvPushed = Len(srvPlan)

\* the bytes a step has taken from the socket: rx is them followed by rx'
\* (a step that leaves wire alone is no delivery and adds nothing to rx)
BytesRead == SubSeq(rx, 1, Len(rx) - Len(rx'))

\* C20: receive_json neither loses, duplicates nor reorders bytes.  A call
\* that finds a complete object buffered returns it with the rest of the
\* buffer kept and reads nothing; a call that does not starts from the
\* buffer; each socket.recv appends what it read to what the call holds; and
\* on return the text returned followed by the new buffer is what the call
\* held followed by what it read last.
C20_BytesConserved ==
    [][/\ (ncalls' = ncalls + 1 /\ nframes' = nframes + 1)
            => \E t \in Threads :
                  /\ pc[t] = "idle" /\ pc'[t] = "idle"
                  /\ outcome'[t].kind = "return"
                  /\ outcome'[t].text \o input' = input
                  /\ rx' = rx
       /\ \A t \in Threads :
          /\ (pc[t] = "idle" /\ pc'[t] = "recv")
                => /\ Pending(t)' = input
                   /\ input' = input
                   /\ rx' = rx
          /\ (pc[t] = "recv" /\ pc'[t] = "recv" /\ wire' = wire)
                => /\ rx = BytesRead \o rx'
                   /\ Pending(t)' = Pending(t) \o BytesRead
                   /\ input' = input
          /\ (pc[t] = "recv" /\ pc'[t] = "idle" /\ outcome'[t].kind = "return")
                => /\ rx = BytesRead \o rx'
                   /\ outcome'[t].text \o input' = Pending(t) \o BytesRead]_vars

\* C20 witness: the second call has returned the second object of the stream
\* after a read of fewer bytes than the object has: the rest of it came from
\* the buffer or from an earlier read of the call
C20_Witness ==
    /\ pc["t1"] = "idle"
    /\ ncalls = 2
    /\ nframes = 2
    /\ outcome["t1"].kind = "return"
    /\ \A i \in DOMAIN outcome["t1"].text : outcome["t1"].text[i].m = -2
    /\ Chars(outcome["t1"].text) = srvPlan[2]
    /\ part_len["t1"] > 0
    /\ part_len["t1"] < Len(outcome["t1"].text)

\* what the server has sent and the receive_json call of thread t has not
\* consumed: what the call holds, what the socket holds, what is on its way
Unconsumed(t) == Pending(t) \o rx \o wire

\* the receive_json call of thread t waits in socket.recv while the bytes the
\* server has sent hold a complete next object, as the scanner counts
ObjectSent(t) ==
    /\ pc[t] = "recv"
    /\ FoundObject(get_json_object_end_index(Unconsumed(t)))

\* C21: once the bytes the server has sent contain a complete next object,
\* the receive_json call that waits for it eventually returns, whatever the
\* sizes of the chunks delivered and whether or not the server sends more.
C21_SentObjectReturned ==
    ObjectSent("t1") ~> (pc["t1"] = "idle" /\ outcome["t1"].kind = "return")

----------------------------------------------------------------------------
(* Properties of the command channel *)

\* the bytes of a frame all come from the server's answer to request r
AnswerTo(frame, r) == \A i \in DOMAIN frame : frame[i].m = r

\* C2: with calls issued one at a time, each perform_command call returns, or
\* raises from, the response to the request it sent itself: the frame it
\* consumed is made of bytes of the server's answer to that request.
C2_ResponsesInRequestOrder ==
    \A t \in Threads :
        (pc[t] = "idle" /\ outcome[t].op = "perform_command" /\ outcome[t].text # <<>>)
            => AnswerTo(outcome[t].text, outcome[t].req)

\* a perform_command call of thread t is over and the frame it consumed
\* decodes to a response envelope
Decoded(t) ==
    /\ pc[t] = "idle"
    /\ outcome[t].op = "perform_command"
    /\ IsResponse(outcome[t].text)

\* C3: perform_command maps the envelope it decoded to one outcome: success
\* returns the response; TaskCanceledException raises TaskCanceledException;
\* any other error type raises InternalServerException carrying the request
\* that was sent, the envelope's error type and its error message.
C3_EnvelopeToOutcome ==
    \A t \in Threads :
        Decoded(t) =>
            LET r == DecodeResponse(outcome[t].text)
                o == outcome[t]
            IN  /\ r.success => o.kind = "return" /\ o.response = r
                /\ (~r.success /\ r.error_type = "TaskCanceledException")
                      => o.kind = "raise" /\ o.exc = "TaskCanceledException"
                /\ (~r.success /\ r.error_type # "TaskCanceledException")
                      => /\ o.kind = "raise"
                         /\ o.exc = "InternalServerException"
                         /\ o.command = cmd[t]
                         /\ o.command = tx[o.req].msg
                         /\ o.error_type = r.error_type
                         /\ o.error_message = r.error_message

\* C3 witness: a call whose frame decoded to an envelope of a cancelled task
\* has raised TaskCanceledException
C3_Witness ==
    \E t \in Threads :
        /\ Decoded(t)
        /\ DecodeResponse(outcome[t].text).error_type = "TaskCanceledException"
        /\ outcome[t].exc = "TaskCanceledException"

\* the ways perform_command ends once it has decoded a response envelope
CommandEndings == {"", "TaskCanceledException", "InternalServerException"}

\* C18: every perform_command writes one request frame and then takes one
\* frame off the stream, whatever its outcome: after n calls on the connected
\* connection n requests are written, and n frames are consumed once the last
\* call is over (n - 1 while it waits); a call that ended on a decoded
\* envelope consumed one whole envelope, after the one request it wrote.
C18_OneRequestOneResponse ==
    /\ Len(tx) = 1 + ncalls
    /\ \A i \in 2..Len(tx) : tx[i].msg \in Commands
    /\ nframes = IF pc["t1"] = "idle" THEN ncalls ELSE ncalls - 1
    /\ (/\ pc["t1"] = "idle"
        /\ outcome["t1"].op = "perform_command"
        /\ outcome["t1"].exc \in CommandEndings)
          => /\ outcome["t1"].req = Len(tx)
             /\ tx[Len(tx)].msg = cmd["t1"]
             /\ IsResponse(outcome["t1"].text)

\* C18 witness: the second of two calls has raised InternalServerException;
\* two requests are written and two frames consumed
C18_Witness ==
    /\ pc["t1"] = "idle"
    /\ ncalls = 2
    /\ outcome["t1"].exc = "InternalServerException"
    /\ Len(tx) = 3
    /\ nframes = 2

\* the frame is, byte for byte, the whole answer of the server to request r
WholeAnswerTo(frame, r) ==
    /\ AnswerTo(frame, r)
    /\ IsResponse(frame)

\* C7: when two threads call perform_command on one connection, each caller
\* gets the response to its own request: a call that consumed a whole answer
\* of the server consumed the answer to the request it sent.
C7_OwnResponse ==
    \A t \in Threads :
        (pc[t] = "idle" /\ outcome[t].op = "perform_command")
            => \A r \in 1..Len(tx) :
                  WholeAnswerTo(outcome[t].text, r) => r = outcome[t].req

----------------------------------------------------------------------------
(* Properties of the life of a connection *)

\* the greeting the pending socket.recv(50) of connect() will return
GreetingRead == Take(rx, GREETING_SIZE)

\* C4: when connect() reads a greeting of an incompatible version, it fails
\* having written nothing and recorded no id.
C4_IncompatibleWritesNothing ==
    [][\A t \in Threads :
          (/\ pc[t] = "greeting"
           /\ pc'[t] # "greeting"
           /\ IsGreeting(GreetingRead)
           /\ ParseGreeting(GreetingRead).version = "v_old")
          => /\ pc'[t] = "idle"
             /\ outcome'[t].kind = "raise"
             /\ tx' = tx
             /\ id' = id]_vars

\* C4 witness: a connect() on the second socket has failed on the version,
\* and the id is still that of the first session
C4_Witness ==
    /\ pc["t1"] = "idle"
    /\ outcome["t1"].exc = "IncompatibleVersionException"
    /\ socket = 2
    /\ id = SessionIds[1]

\* C5: when connect() fails, the transport it opened has been closed by the
\* time the error reaches the caller.
C5_FailedConnectClosesTransport ==
    \A t \in Threads :
        (pc[t] = "idle" /\ outcome[t].op = "connect" /\ outcome[t].kind = "raise")
            => closeCalls[nsock] > 0

\* C8: close() raises nothing, leaves the connection without a socket, closes
\* no transport a second time, and changes nothing when the connection has no
\* socket.
C8_CloseIdempotent ==
    [][\A t \in Threads :
          (ncalls' = ncalls + 1 /\ op'[t] = "close" /\ pc[t] = "idle")
          => /\ outcome'[t].kind = "return"
             /\ socket' = 0
             /\ \A n \in DOMAIN closeCalls : closeCalls'[n] <= 1
             /\ socket = 0 => UNCHANGED <<socket, id, input, closeCalls, wire, rx, tx>>]_vars

\* C8 witness: of three calls on a live transport the first was connect() and
\* the last close(); no command was written in between, so the second was a
\* close() too, and the transport was closed once
C8_Witness ==
    /\ ncalls = 3
    /\ nsock = 1
    /\ pc["t1"] = "idle"
    /\ outcome["t1"].op = "close"
    /\ handshaken = {1}
    /\ ~peerClosed
    /\ Len(tx) = 1
    /\ closeCalls[1] = 1

\* C9: every frame other than the init message was written on a socket whose
\* handshake had completed: none before it, and none after a failed connect().
C9_NoTrafficBeforeHandshake ==
    \A i \in DOMAIN tx : tx[i].msg # "init" => tx[i].sock \in handshaken

\* C13: once close() has returned the connection has no socket and its
\* read-ahead buffer is empty, and the frame a later connect() takes as its
\* init response is the server's answer to the init message it wrote, not
\* bytes buffered before the close().
C13_CloseDiscardsBuffer ==
    \A t \in Threads :
        pc[t] = "idle" =>
            /\ outcome[t].op = "close" => socket = 0 /\ input = <<>>
            /\ (outcome[t].op = "connect" /\ outcome[t].text # <<>>)
                  => AnswerTo(outcome[t].text, outcome[t].req)

\* the last call of thread t was a connect() whose init response decoded to
\* an envelope with success = false
RejectedConnect(t) ==
    /\ pc[t] = "idle"
    /\ outcome[t].op = "connect"
    /\ IsResponse(outcome[t].text)
    /\ ~DecodeResponse(outcome[t].text).success

\* C12: a connect() whose init response has success = false has raised an
\* error carrying the server's error type and error message, and the
\* connection is not connected: while it keeps the socket of that connect()
\* no call writes a frame on it.
C12_RejectedInitNotConnected ==
    [][\A t \in Threads :
          RejectedConnect(t) =>
              /\ outcome[t].kind = "raise"
              /\ outcome[t].error_type = DecodeResponse(outcome[t].text).error_type
              /\ outcome[t].error_message = DecodeResponse(outcome[t].text).error_message
              /\ socket' = socket => tx' = tx]_vars

----------------------------------------------------------------------------
(* Properties of the subscription channel *)

\* the acknowledgments the client has written
AcksSent == Cardinality({i \in DOMAIN tx : tx[i].msg = "acknowledge"})

Getters == {"get_machine_model", "get_serialized_machine_model", "get_machine_model_patch"}

\* C10: a getter returns a payload to its caller only after the payloads
\* returned before it have all been acknowledged: when the (k+1)-th payload is
\* returned, k acknowledgments were written before the receive that took it.
C10_PayloadAfterAcknowledge ==
    [][nreturned' = nreturned + 1 => AcksSent >= nreturned]_vars

\* C10 witness: the second payload the server pushed, which it held back until
\* it had read the first acknowledgment, has been returned by a getter
C10_Witness ==
    /\ pc["t1"] = "idle"
    /\ outcome["t1"].op \in Getters
    /\ outcome["t1"].kind = "return"
    /\ nreturned = 2
    /\ AnswerTo(outcome["t1"].text, -2)

\* C16: whenever no getter is running, however the last one ended, the
\* acknowledgments written are as many as the payload frames taken off the
\* stream, and at no time are there more acknowledgments than frames taken.
C16_EveryPayloadAcknowledged ==
    /\ AcksSent <= nframes
    /\ pc["t1"] = "idle" => AcksSent = nframes

----------------------------------------------------------------------------
(* Properties of the interception channel *)

\* the resolutions the client has written
ResolutionsSent == Cardinality({i \in DOMAIN tx : tx[i].msg \in Resolutions})

\* C11: a resolve_code that has returned has written its resolve message, and
\* a receive_code returns bytes of the k-th code the server pushed only after
\* k - 1 resolutions were written: never a new code before the resolve message.
C11_NewCodeAfterResolve ==
    \A t \in Threads :
        (pc[t] = "idle" /\ outcome[t].kind = "return") =>
            /\ outcome[t].op = "resolve_code"
                  => /\ outcome[t].req = Len(tx)
                     /\ outcome[t].req > 0
                     /\ tx[Len(tx)].msg = "resolve"
            /\ outcome[t].op = "receive_code"
                  => \A i \in DOMAIN outcome[t].text :
                        -outcome[t].text[i].m - 1 <= ResolutionsSent

\* C11 witness: after a first code and one resolve_code, the third call, a
\* receive_code, has returned the second code the server pushed
C11_Witness ==
    /\ pc["t1"] = "idle"
    /\ ncalls = 3
    /\ outcome["t1"].op = "receive_code"
    /\ outcome["t1"].kind = "return"
    /\ nreturned = 2
    /\ AnswerTo(outcome["t1"].text, -2)
    /\ Len(tx) = 2
    /\ tx[2].msg = "resolve"

\* C17: the client writes a resolution only for a code receive_code has
\* returned, and one per code: the resolutions written never outnumber the
\* codes returned.
C17_OneResolutionPerCode == ResolutionsSent <= nreturned

====
